---- MODULE Spec2Model ----
(***************************************************************************)
(* Monte Carlo simulator (MC_Sim): Die, Game and Analyzer.                 *)
(*                                                                         *)
(* A pandas DataFrame is modelled as a function from column name to        *)
(* column, a column being a function from index label to value.  A die's   *)
(* frame has the faces as index labels; a results frame has the roll       *)
(* numbers k (label 'roll_k') as index labels and one column per die.      *)
(* A weight is the number the float holds.                                 *)
(* An operation that raises leaves its exception's name in ret.err.        *)
(***************************************************************************)
EXTENDS Integers, Sequences, FiniteSets, Bags, TLC

VARIABLES die, results, analyzer, ret

vars == <<die, results, analyzer, ret>>

(* ---------------------------- bounds ----------------------------------- *)
NumDice == 2
NumFaces == 2
MaxWeight == 0
MaxRolls == 2

(* ---------------------------- values ----------------------------------- *)
None == <<>>
Some(x) == <<x>>

Dice == 0 .. (NumDice - 1)
Faces == 1 .. NumFaces
\* faces a caller may pass: the die's faces and one that is not on the die
FaceArgs == 1 .. (NumFaces + 1)

\* Python values a caller may pass as new_weight: the numbers v, the
\* numeric string of a number v, a non-numeric string, None, and an int
\* beyond the range of a float (10**400).
WeightArgs ==
    [t : {"num"}, v : (-1) .. MaxWeight]
        \cup {[t |-> "numstr", v |-> MaxWeight], [t |-> "junk", v |-> 0],
              [t |-> "none", v |-> 0], [t |-> "huge", v |-> 0]}

NoVal == <<>>
Raise(e) == [err |-> e, val |-> NoVal]
Return(v) == [err |-> "none", val |-> v]

(* ------------------------------ Die ------------------------------------ *)
\* Die.__init__: the frame {'Faces': sides, 'Weight': [1, ..., 1]} indexed by
\* Faces.
Die_init(sides) == ("Weight" :> [f \in sides |-> 1])

index(df) == UNION {DOMAIN df[c] : c \in DOMAIN df}

\* float(new_weight)
float(x) ==
    CASE x.t = "num" -> Return(x.v)
      [] x.t = "numstr" -> Return(x.v)
      [] x.t = "junk" -> Raise("ValueError")
      [] x.t = "none" -> Raise("TypeError")
      [] x.t = "huge" -> Raise("OverflowError")

\* df[col] = value instead of df.loc[label, col] = value: every row of the
\* column is overwritten.
loc_set_column(df, label, col, value) ==
    [df EXCEPT ![col] = [r \in DOMAIN df[col] \cup {label} |-> value]]

\* df.loc[label, col] = value on a column the frame has: overwrites the
\* cell; a label that is not in the index is added as a new row (setting
\* with enlargement).
loc_set(df, label, col, value) ==
    [df EXCEPT ![col] = [r \in DOMAIN df[col] \cup {label} |->
                            IF r = label THEN value ELSE df[col][r]]]

\* change_weight without the membership test on face
change_weight_df_any_face(df, sides, face, new_weight) ==
    LET conv == float(new_weight)
    IN  IF conv.err \in {"ValueError", "TypeError"}
        THEN [err |-> "TypeError", df |-> df]
        ELSE IF conv.err # "none"
             THEN [err |-> conv.err, df |-> df]
             ELSE IF conv.val < 0
                  THEN [err |-> "ValueError", df |-> df]
                  ELSE [err |-> "none",
                        df |-> loc_set(df, face, "Weight", conv.val)]

\* Die.change_weight on the frame df of a die with the given sides: the
\* exception raised ("none" on success) and the frame afterwards.  The
\* except clause turns the ValueError and the TypeError of float() into
\* TypeError; any other exception of float() leaves the method as it is.
change_weight_df(df, sides, face, new_weight) ==
    IF face \notin sides
    THEN [err |-> "IndexError", df |-> df]
    ELSE LET conv == float(new_weight)
         IN  IF conv.err \in {"ValueError", "TypeError"}
             THEN [err |-> "TypeError", df |-> df]
             ELSE IF conv.err # "none"
                  THEN [err |-> conv.err, df |-> df]
                  ELSE IF conv.val < 0
                       THEN [err |-> "ValueError", df |-> df]
                       ELSE [err |-> "none",
                             df |-> loc_set(df, face, "Weight", conv.val)]

\* Die.show_die: a copy of the frame
show_die(i) == die[i]

\* Series.sum()
RECURSIVE sum_over(_, _)
sum_over(col, labels) ==
    IF labels = {} THEN 0
    ELSE LET r == CHOOSE x \in labels : TRUE
         IN  col[r] + sum_over(col, labels \ {r})

series_sum(col) == sum_over(col, DOMAIN col)

\* w / total as a probability: the fraction num/den, NaN for 0/0,
\* infinite for a non-zero weight over 0.
divide(w, total) ==
    [nan |-> total = 0 /\ w = 0,
     inf |-> total = 0 /\ w # 0,
     num |-> w, den |-> total]

\* numpy.random.choice(a, size, p) accepts p when it holds no NaN, no
\* negative entry and sums to 1; num/total sums to 1 when nothing is NaN.
valid_p(p) ==
    \A f \in DOMAIN p : ~p[f].nan /\ ~p[f].inf /\ p[f].num * p[f].den >= 0

\* Die.roll_die on the frame df: the outcomes the call can have.  A column
\* that the frame does not have raises KeyError.
roll_die_outcomes(df, roll) ==
    IF "Weights" \notin DOMAIN df
    THEN {Raise("KeyError")}
    ELSE LET w == df["Weights"]
             total == series_sum(w)
             probs == [f \in DOMAIN w |-> divide(w[f], total)]
             support == {f \in DOMAIN w : probs[f].num # 0}
         IN  IF ~valid_p(probs)
             THEN {Raise("ValueError")}
             ELSE {Return(s) : s \in [1 .. roll -> support]}

(* ------------------------------ Game ----------------------------------- *)
ColName(i) == "die_" \o ToString(i)

\* The dict comprehension of Game.play from die i on, cols being the entries
\* built so far: the dice are rolled in list order and the first exception
\* ends the comprehension.
RECURSIVE play_dict(_, _, _, _)
play_dict(dies, n_rolls, i, cols) ==
    IF i = NumDice
    THEN {[err |-> "none", cols |-> cols]}
    ELSE UNION {IF o.err # "none"
                THEN {[err |-> o.err, cols |-> cols]}
                ELSE play_dict(dies, n_rolls, i + 1, (ColName(i) :> o.val) @@ cols)
                : o \in roll_die_outcomes(dies[i], n_rolls)}

\* pd.DataFrame(results, index=['roll_1', ..., 'roll_n']): row k is labelled
\* roll_k and holds the k-th value of every list.
DataFrame(cols, n_rolls) ==
    [c \in DOMAIN cols |-> [k \in 1 .. n_rolls |-> cols[c][k]]]

\* self.results filled as the dice are rolled: an exception leaves the
\* columns built so far.
play_results_partial(prev, out, n_rolls) == Some(DataFrame(out.cols, n_rolls))

\* self.results after Game.play: assigned once, after every die was rolled
\* and the frame was built; an exception leaves it as it was.
play_results(prev, out, n_rolls) ==
    IF out.err = "none" THEN Some(DataFrame(out.cols, n_rolls)) ELSE prev

\* the columns of a results frame in frame order
RECURSIVE die_columns(_, _)
die_columns(df, i) ==
    IF i = NumDice THEN <<>>
    ELSE (IF ColName(i) \in DOMAIN df THEN <<ColName(i)>> ELSE <<>>)
             \o die_columns(df, i + 1)

n_rows(df) == Cardinality(index(df))
shape(df) == <<n_rows(df), Cardinality(DOMAIN df)>>

\* DataFrame.reset_index(): the unnamed index becomes the column 'index',
\* the rows are renumbered 0..n-1.
reset_index(df) ==
    LET n == n_rows(df)
    IN  ("index" :> [k \in 0 .. (n - 1) |-> k + 1])
            @@ [c \in DOMAIN df |-> [k \in 0 .. (n - 1) |-> df[c][k + 1]]]

\* DataFrame.melt(id_vars=[id], var_name, value_name): KeyError when id is
\* not a column; else one row per (value column, row), column by column.
melt(df, id, var_name, value_name) ==
    IF id \notin DOMAIN df
    THEN Raise("KeyError")
    ELSE LET n == n_rows(df)
             vcols == die_columns(df, 0)
             N == n * Len(vcols)
             col_of(j) == vcols[(j \div n) + 1]
             row_of(j) == j % n
         IN  Return((id :> [j \in 0 .. (N - 1) |-> df[id][row_of(j)]])
                 @@ (var_name :> [j \in 0 .. (N - 1) |-> col_of(j)])
                 @@ (value_name :> [j \in 0 .. (N - 1) |-> df[col_of(j)][row_of(j)]]))

\* Game.show on the stored results res.  ref tells whether the returned
\* frame is the stored object itself or a new one.
show_outcome(res, form) ==
    IF res = None
    THEN Raise("ValueError")
    ELSE IF form = "wide"
         THEN Return([ref |-> "self.results", df |-> res[1]])
         ELSE IF form = "narrow"
              THEN LET m == melt(reset_index(res[1]), "Roll", "Die", "Face")
                   IN  IF m.err # "none" THEN Raise(m.err)
                       ELSE Return([ref |-> "new", df |-> m.val])
              ELSE Raise("ValueError")

Forms == {"wide", "narrow", "tall"}

(* ---------------------------- Analyzer --------------------------------- *)
\* Analyzer.__init__(game): arg is "Game" for the game, "other" for an
\* object that is no Game.
Analyzer_outcome(arg, res) ==
    IF arg # "Game"
    THEN Raise("ValueError")
    ELSE LET s == show_outcome(res, "wide")
         IN  IF s.err # "none" THEN Raise(s.err)
             ELSE Return([_results |-> s.val.df])

\* row k of a results frame as a tuple, in die-column order
row(df, k) == [j \in 1 .. NumDice |-> df[ColName(j - 1)][k]]

\* Analyzer.jackpot: the number of rows whose nunique is 1
jackpot_of(df) ==
    Cardinality({k \in index(df) :
        Cardinality({row(df, k)[j] : j \in DOMAIN row(df, k)}) = 1})

\* Analyzer.face_counts: per row the count of every face seen anywhere in
\* the frame, 0 where value_counts of the row has no entry (fillna(0)).
face_counts_of(df) ==
    LET seen == UNION {{row(df, k)[j] : j \in DOMAIN row(df, k)} : k \in index(df)}
    IN  [k \in index(df) |-> [f \in seen |->
            Cardinality({j \in DOMAIN row(df, k) : row(df, k)[j] = f})]]

\* sorted(x): insertion sort into ascending order
RECURSIVE insert(_, _)
insert(x, s) ==
    IF s = <<>> THEN <<x>>
    ELSE IF x <= Head(s) THEN <<x>> \o s
         ELSE <<Head(s)>> \o insert(x, Tail(s))

RECURSIVE sorted(_)
sorted(s) == IF s = <<>> THEN <<>> ELSE insert(Head(s), sorted(Tail(s)))

\* the rows taken as they are, without sorted()
combos_unsorted(df) == [k \in index(df) |-> row(df, k)]

\* df.apply(lambda x: tuple(sorted(x)), axis=1)
combos(df) == [k \in index(df) |-> sorted(row(df, k))]

\* df.apply(tuple, axis=1)
perms(df) == [k \in index(df) |-> row(df, k)]

\* Series.value_counts(): one entry per distinct value with the number of
\* its occurrences, in descending order of count; the order among equal
\* counts is not fixed, so every such order is an outcome.
value_counts(series) ==
    LET keys == {series[k] : k \in DOMAIN series}
        count(key) == Cardinality({k \in DOMAIN series : series[k] = key})
        m == Cardinality(keys)
        orders == {o \in [1 .. m -> keys] :
                      /\ \A i, j \in 1 .. m : i # j => o[i] # o[j]
                      /\ \A i, j \in 1 .. m : i < j => count(o[i]) >= count(o[j])}
    IN  {[j \in 1 .. m |-> [key |-> o[j], count |-> count(o[j])]] : o \in orders}

\* Analyzer.combo_count: reads the game's results through game.show('wide')
combo_count_outcomes(res) ==
    LET s == show_outcome(res, "wide")
    IN  IF s.err # "none" THEN {Raise(s.err)}
        ELSE {Return(vc) : vc \in value_counts(combos(s.val.df))}

\* Analyzer.perm_count: reads the game's results through game.show('wide')
perm_count_outcomes(res) ==
    LET s == show_outcome(res, "wide")
    IN  IF s.err # "none" THEN {Raise(s.err)}
        ELSE {Return(vc) : vc \in value_counts(perms(s.val.df))}

(* ----------------------------- state ----------------------------------- *)
Init ==
    /\ die = [i \in Dice |-> Die_init(Faces)]
    /\ results = None
    /\ analyzer = None
    /\ ret = [op |-> "init", err |-> "none", val |-> NoVal]

change_weight(i, face, new_weight) ==
    \E out \in {change_weight_df(die[i], Faces, face, new_weight)} :
        /\ ret' = [op |-> "change_weight", err |-> out.err, val |-> NoVal]
        /\ die' = [die EXCEPT ![i] = out.df]
        /\ UNCHANGED <<results, analyzer>>

roll_die(i, roll) ==
    \E o \in roll_die_outcomes(die[i], roll) :
        /\ ret' = [op |-> "roll_die", err |-> o.err, val |-> o.val]
        /\ UNCHANGED <<die, results, analyzer>>

play(n_rolls) ==
    \E out \in play_dict(die, n_rolls, 0, <<>>) :
        /\ results' = play_results(results, out, n_rolls)
        /\ ret' = [op |-> "play", err |-> out.err, val |-> NoVal]
        /\ UNCHANGED <<die, analyzer>>

show(form) ==
    LET o == show_outcome(results, form)
    IN  /\ ret' = [op |-> "show", err |-> o.err, val |-> o.val]
        /\ UNCHANGED <<die, results, analyzer>>

Analyzer_init(arg) ==
    LET o == Analyzer_outcome(arg, results)
    IN  /\ analyzer' = IF o.err = "none" THEN Some(o.val) ELSE analyzer
        /\ ret' = [op |-> "Analyzer", err |-> o.err, val |-> NoVal]
        /\ UNCHANGED <<die, results>>

Next ==
    \/ \E i \in Dice, face \in FaceArgs, w \in WeightArgs : change_weight(i, face, w)
    \/ \E i \in Dice, roll \in 0 .. MaxRolls : roll_die(i, roll)
    \/ \E n \in 1 .. MaxRolls : play(n)
    \/ \E form \in Forms : show(form)
    \/ \E arg \in {"Game", "other"} : Analyzer_init(arg)

Spec == Init /\ [][Next]_vars

(* ------------- the analysis methods as functions of a table ------------ *)
\* the results frames of MaxRolls rolls or fewer over NumDice dice
Tables ==
    UNION {{DataFrame(cols, n) :
                cols \in [{ColName(i) : i \in Dice} -> [1 .. n -> Faces]]}
           : n \in 1 .. MaxRolls}

\* a game holding a results frame and an Analyzer constructed over it
InitAnalysis ==
    /\ die = [i \in Dice |-> Die_init(Faces)]
    /\ results \in {Some(t) : t \in Tables}
    /\ analyzer = Some([_results |-> results[1]])
    /\ ret = [op |-> "init", err |-> "none", val |-> NoVal]

jackpot ==
    /\ ret' = [op |-> "jackpot", err |-> "none",
               val |-> jackpot_of(analyzer[1]._results)]
    /\ UNCHANGED <<die, results, analyzer>>

face_counts ==
    /\ ret' = [op |-> "face_counts", err |-> "none",
               val |-> face_counts_of(analyzer[1]._results)]
    /\ UNCHANGED <<die, results, analyzer>>

combo_count ==
    \E o \in combo_count_outcomes(results) :
        /\ ret' = [op |-> "combo_count", err |-> o.err, val |-> o.val]
        /\ UNCHANGED <<die, results, analyzer>>

perm_count ==
    \E o \in perm_count_outcomes(results) :
        /\ ret' = [op |-> "perm_count", err |-> o.err, val |-> o.val]
        /\ UNCHANGED <<die, results, analyzer>>

NextAnalysis ==
    \/ jackpot
    \/ face_counts
    \/ combo_count
    \/ perm_count

SpecAnalysis == InitAnalysis /\ [][NextAnalysis]_vars

(* ============================== claims ================================= *)
weight(i, f) == die[i]["Weight"][f]

\* the dice whose frame is the one Die.__init__ built, up to the weights
WellFormed(i) == DOMAIN die[i] = {"Weight"} /\ DOMAIN die[i]["Weight"] = Faces

\* C1: after play(n_rolls) on a game of NumDice dice, show('wide') returns a
\* table of shape (n_rolls, NumDice) and show('narrow') returns a table of
\* n_rolls * NumDice rows whose columns are exactly Roll, Die and Face.
C1_PlayedShapes ==
    [][\A n \in 1 .. MaxRolls : play(n) =>
          LET wide == show_outcome(results', "wide")
              narrow == show_outcome(results', "narrow")
          IN  /\ wide.err = "none"
              /\ shape(wide.val.df) = <<n, NumDice>>
              /\ narrow.err = "none"
              /\ n_rows(narrow.val.df) = n * NumDice
              /\ DOMAIN narrow.val.df = {"Roll", "Die", "Face"}]_vars

\* C2: on a die that has at least one positive weight, roll_die(n) returns a
\* list of exactly n values, each a face of the die, for every n >= 0.
C2_RollReturnsFaces ==
    [][\A i \in Dice, n \in 0 .. MaxRolls :
          (/\ roll_die(i, n)
           /\ WellFormed(i)
           /\ \E f \in Faces : weight(i, f) > 0)
          => /\ ret'.err = "none"
             /\ Len(ret'.val) = n
             /\ \A k \in 1 .. n : ret'.val[k] \in Faces]_vars

\* C3: after a successful change_weight(f, w) with w >= 0, show_die holds
\* exactly w for f and every other face of the die, and every other die,
\* has the weight it had before the call.
C3_ChangeWeightSetsOneFace ==
    [][\A i \in Dice, face \in FaceArgs, w \in WeightArgs :
          (/\ w.t \in {"num", "numstr"}
           /\ w.v >= 0
           /\ ret'.err = "none"
           /\ change_weight(i, face, w))
          => /\ face \in Faces
             /\ DOMAIN show_die(i)' = {"Weight"}
             /\ DOMAIN show_die(i)'["Weight"] = Faces
             /\ show_die(i)'["Weight"][face] = w.v
             /\ \A g \in Faces \ {face} :
                    show_die(i)'["Weight"][g] = show_die(i)["Weight"][g]
             /\ \A j \in Dice \ {i} : show_die(j)' = show_die(j)]_vars

\* a successful change_weight has left a die with one face at weight 0 and
\* another face still at weight 1
C3_Witness ==
    /\ ret.op = "change_weight"
    /\ ret.err = "none"
    /\ \E i \in Dice : \E f, g \in Faces :
           f # g /\ weight(i, f) = 0 /\ weight(i, g) = 1

\* what the four analysis methods return for an analyzer an over a game
\* whose results are res
Analyses(an, res) ==
    <<jackpot_of(an._results), face_counts_of(an._results),
      combo_count_outcomes(res), perm_count_outcomes(res)>>

\* C4: Analyzer(game) over a game that was just played is constructed and
\* holds the results table of that time, and a later play leaves the result
\* of jackpot, face_counts, combo_count and perm_count as it was.
C4_AnalyzerSnapshot ==
    [][/\ (ret.op = "play" /\ Analyzer_init("Game"))
              => /\ analyzer' # None
                 /\ results # None
                 /\ analyzer'[1]._results = results[1]
                 /\ combo_count_outcomes(results')
                        = {Return(vc) : vc \in value_counts(combos(results[1]))}
                 /\ perm_count_outcomes(results')
                        = {Return(vc) : vc \in value_counts(perms(results[1]))}
       /\ \A n \in 1 .. MaxRolls : (analyzer # None /\ play(n))
              => /\ analyzer' # None
                 /\ Analyses(analyzer'[1], results') = Analyses(analyzer[1], results)]_vars

\* C5: show('wide') and show('narrow') on a game that was just played
\* return a new table, not the stored one, so that mutating it leaves the
\* stored results as the play produced them.
C5_ShowReturnsCopies ==
    [][\A form \in {"wide", "narrow"} : (ret.op = "play" /\ show(form))
          => /\ ret'.err = "none"
             /\ ret'.val.ref = "new"
             /\ results' = results]_vars

\* C6: results is absent until the first play and show then fails with
\* ValueError; after a play(n_rolls) the results are a table of n_rolls rows
\* numbered 1..n_rolls, one column per die.
C6_ResultsLifecycle ==
    [][/\ results = None
              => \A form \in Forms : show_outcome(results, form).err = "ValueError"
       /\ (results = None /\ ~(\E n \in 1 .. MaxRolls : play(n)))
              => results' = None
       /\ \A n \in 1 .. MaxRolls : play(n)
              => /\ results' # None
                 /\ index(results'[1]) = 1 .. n
                 /\ DOMAIN results'[1] = {ColName(i) : i \in Dice}]_vars

\* C7 as stated: every die keeps the faces it was constructed with, one
\* weight per face, every weight >= 0 and at least one weight > 0.
C7_DieInvariantPositive ==
    \A i \in Dice :
        /\ WellFormed(i)
        /\ \A f \in Faces : weight(i, f) >= 0
        /\ \E f \in Faces : weight(i, f) > 0

\* C7 as amended: every die keeps the faces it was constructed with, one
\* weight per face, and no weight is negative; the weights may all be zero.
C7_DieInvariant ==
    \A i \in Dice :
        /\ WellFormed(i)
        /\ \A f \in Faces : ~(weight(i, f) < 0)

\* change_weight calls have left a die with every weight zero
C7_Witness ==
    /\ ret.op = "change_weight"
    /\ \E i \in Dice : \A f \in Faces : weight(i, f) = 0

\* C8: change_weight fails with IndexError for a face that is not on the
\* die, with TypeError for a weight on a face of the die that float() cannot
\* convert (a non-numeric string, None, an int beyond the range of a
\* float), with ValueError for a negative weight on a face of the die, and a
\* failing call leaves every die's table as it was.
C8_ChangeWeightErrors ==
    [][\A i \in Dice, face \in FaceArgs, w \in WeightArgs :
          change_weight(i, face, w)
          => /\ face \notin Faces => ret'.err = "IndexError"
             /\ (face \in Faces /\ w.t \in {"junk", "none", "huge"})
                    => ret'.err = "TypeError"
             /\ (face \in Faces /\ w.t \in {"num", "numstr"} /\ w.v < 0)
                    => ret'.err = "ValueError"
             /\ ret'.err # "none" => die' = die]_vars

\* C9: after a play(n_rolls) that failed, results is what it was before the
\* call or a whole table of n_rolls rows and one column per die.
C9_FailedPlayAtomic ==
    [][\A n \in 1 .. MaxRolls : (play(n) /\ ret'.err # "none")
          => \/ results' = results
             \/ /\ results' # None
                /\ index(results'[1]) = 1 .. n
                /\ DOMAIN results'[1] = {ColName(i) : i \in Dice}]_vars

\* a play failed on a game one of whose dice has every weight zero, and the
\* game, never played before, still has no results
C9_Witness ==
    /\ ret.op = "play"
    /\ ret.err # "none"
    /\ results = None
    /\ \E i \in Dice : \A f \in Faces : weight(i, f) = 0

RECURSIVE sum_counts(_)
sum_counts(vc) == IF vc = <<>> THEN 0 ELSE Head(vc).count + sum_counts(Tail(vc))

\* a and b hold the same faces the same number of times
SameFaces(a, b) ==
    \A f \in Faces : Cardinality({j \in DOMAIN a : a[j] = f})
                        = Cardinality({j \in DOMAIN b : b[j] = f})

Ascending(a) == \A x, y \in DOMAIN a : x < y => a[x] <= a[y]

====
